---------------------------- MODULE Spec2Model ----------------------------
(***************************************************************************)
(* A state-machine model of src/binary_converter_tab.py: the 8-bit binary  *)
(* visualizer tab (decimal field, bit boxes, manual bit editing, invert    *)
(* sign, base cards) and its quiz panel.                                   *)
(*                                                                         *)
(* Texts are sequences of one-character strings, so that formatting and    *)
(* parsing are computed character by character as Python does.             *)
(***************************************************************************)
EXTENDS Integers, Sequences, FiniteSets, TLC

(***************************************************************************)
(* Program constants                                                       *)
(***************************************************************************)
\* self.num_bits = 8
num_bits == 8
\* the decimal range on_decimal_changed accepts
MinValue == -128
MaxValue == 255
\* base_selector.setRange(2, 36); setValue(10)
MinBase == 2
MaxBase == 36
DefaultBase == 10

(***************************************************************************)
(* Bounds of the model                                                     *)
(***************************************************************************)
\* manual clicks recorded by the observer `clicks` (SpecRoundTrip)
MaxClicks == 2
\* counted quiz submissions (SpecQuiz)
MaxSubmissions == 3

(***************************************************************************)
(* Python text primitives                                                  *)
(***************************************************************************)
DecDigits == <<"0", "1", "2", "3", "4", "5", "6", "7", "8", "9">>
LowerHexDigits == DecDigits \o <<"a", "b", "c", "d", "e", "f">>

\* the `digits` string of convert_to_base
digits == <<"0", "1", "2", "3", "4", "5", "6", "7", "8", "9",
            "A", "B", "C", "D", "E", "F">>

\* value & ((1 << num_bits) - 1), also value & 0xff: Python's & on a negative
\* int works on the infinite two's-complement form, i.e. the residue mod 256
Mask8(value) == value % (2 ^ num_bits)

RECURSIVE NatToBase(_, _, _)
\* Python's format of a non-negative int in a base ('d', 'b', 'o', 'x')
NatToBase(n, base, alphabet) ==
    IF n < base THEN <<alphabet[n + 1]>>
    ELSE NatToBase(n \div base, base, alphabet) \o <<alphabet[(n % base) + 1]>>

\* str(n)
Str(n) == IF n < 0 THEN <<"-">> \o NatToBase(-n, 10, DecDigits)
          ELSE NatToBase(n, 10, DecDigits)

RECURSIVE ZFill(_, _)
\* zero padding on the left to a width: the 0{w} of a format, str.zfill(w)
ZFill(s, width) == IF Len(s) >= width THEN s ELSE ZFill(<<"0">> \o s, width)

\* f"{n:08b}", f"{n:o}", f"{n:x}", bin(n)[2:]
FormatBin8(n) == ZFill(NatToBase(n, 2, DecDigits), num_bits)
FormatOct(n) == NatToBase(n, 8, DecDigits)
FormatHex(n) == NatToBase(n, 16, LowerHexDigits)
Bin(n) == NatToBase(n, 2, DecDigits)

IsDigit(c) == \E i \in 1..10 : DecDigits[i] = c
DigitValue(c) == (CHOOSE i \in 1..10 : DecDigits[i] = c) - 1

RECURSIVE Strip(_)
\* str.strip() as int() applies it: blanks at both ends are dropped
Strip(s) ==
    IF s = <<>> THEN s
    ELSE IF Head(s) = " " THEN Strip(Tail(s))
    ELSE IF s[Len(s)] = " " THEN Strip(SubSeq(s, 1, Len(s) - 1))
    ELSE s

\* the digit part of an int literal: digits, single underscores between them
IsDigitBody(s) ==
    /\ Len(s) > 0
    /\ IsDigit(s[1])
    /\ IsDigit(s[Len(s)])
    /\ \A i \in 1..Len(s) : IsDigit(s[i]) \/ s[i] = "_"
    /\ \A i \in 1..(Len(s) - 1) : ~(s[i] = "_" /\ s[i + 1] = "_")

RECURSIVE DigitBodyValue(_, _)
DigitBodyValue(s, acc) ==
    IF s = <<>> THEN acc
    ELSE IF Head(s) = "_" THEN DigitBodyValue(Tail(s), acc)
    ELSE DigitBodyValue(Tail(s), 10 * acc + DigitValue(Head(s)))

\* int(text): ok = FALSE stands for the ValueError
ParseInt(text) ==
    LET t == Strip(text)
        neg == t # <<>> /\ Head(t) = "-"
        body == IF t # <<>> /\ Head(t) \in {"-", "+"} THEN Tail(t) ELSE t
    IN  IF IsDigitBody(body)
        THEN [ok |-> TRUE,
              val |-> IF neg THEN 0 - DigitBodyValue(body, 0)
                      ELSE DigitBodyValue(body, 0)]
        ELSE [ok |-> FALSE, val |-> 0]

(***************************************************************************)
(* State                                                                   *)
(***************************************************************************)
VARIABLES
    decimal_text,       \* decimal_input.text()
    input_valid,        \* decimal_input border: TRUE green (#00ffaa), FALSE red (#ff4444)
    invert_enabled,     \* invert_button.isEnabled()
    manual_mode,        \* self.manual_mode, and every BitBox.manual_mode (set together)
    bit_boxes,          \* self.bit_boxes: records [power, value], index 1 is the MSB box
    base_selector,      \* custom_base_card.base_selector.value()
    binary_card,        \* text of the Binary card
    octal_card,         \* text of the Octal card
    hex_card,           \* text of the Hexadecimal card
    custom_card,        \* text of the Base-N card
    division_checked,   \* division_radio.isChecked() (else powers_radio)
    explanation_text,   \* what explanation_text shows, as structured data
    total_sum_label,    \* the active-bit sum label: its terms and the total shown
    crashed,            \* an exception left a slot uncaught: PyQt6 aborts the process
    quiz_answer,        \* self.quiz_answer
    quiz_score,         \* self.quiz_score
    quiz_total,         \* self.quiz_total
    quiz_question,      \* the binary digits shown by quiz_question
    quiz_input,         \* quiz_input.text()
    quiz_submit_enabled,\* quiz_submit.isEnabled()
    quiz_label,         \* the <<score, total>> shown by quiz_label
    message_box,        \* the last QMessageBox raised by check_quiz_answer
    slot_gets_checked,  \* whether the binding hands clicked's `checked` to the lambda slot
    last,               \* observer: the handler that ran last
    typed,              \* observer: <<v>> once update_bits_from_decimal(v) ran, else <<>>
    clicks,             \* observer: powers of the boxes clicked in manual mode since then
    question_open       \* observer: start_quiz ran and no submission was counted since

converterVars == <<decimal_text, input_valid, invert_enabled, manual_mode, bit_boxes,
                   base_selector, binary_card, octal_card, hex_card, custom_card,
                   division_checked, explanation_text, total_sum_label, crashed>>
outputVars == <<binary_card, octal_card, hex_card, custom_card,
                explanation_text, total_sum_label, crashed>>
quizVars == <<quiz_answer, quiz_score, quiz_total, quiz_question, quiz_input,
              quiz_submit_enabled, quiz_label, message_box>>
observerVars == <<typed, clicks, question_open>>
vars == <<converterVars, quizVars, slot_gets_checked, last, observerVars>>

(***************************************************************************)
(* Bit boxes                                                               *)
(***************************************************************************)
\* init_ui: for i in range(num_bits): power = num_bits - 1 - i; BitBox(power)
\* (BitBox.__init__ sets value = 0); Python index i is index i + 1 here
InitialBitBoxes == [i \in 1..num_bits |-> [power |-> num_bits - i, value |-> 0]]

RECURSIVE SumActive(_)
\* for bit_box in ...: if bit_box.value == 1: current_val += 2 ** bit_box.power
SumActive(boxes) ==
    IF boxes = <<>> THEN 0
    ELSE (IF Head(boxes).value = 1 THEN 2 ^ Head(boxes).power ELSE 0)
         + SumActive(Tail(boxes))

\* a mutant of update_bits_from_decimal: the digits are laid out LSB-first
update_bits_lsb_first(boxes, value) ==
    LET binary_str == FormatBin8(Mask8(value))
    IN  [i \in 1..Len(boxes) |->
            [boxes[i] EXCEPT !.value = DigitValue(binary_str[Len(boxes) + 1 - i])]]

\* update_bits_from_decimal: the boxes after the call
update_bits_from_decimal(boxes, value) ==
    LET binary_str == FormatBin8(Mask8(value))
    IN  [i \in 1..Len(boxes) |->
            [boxes[i] EXCEPT !.value = DigitValue(binary_str[i])]]

\* a mutant of update_decimal_from_bits: the pattern is always read unsigned
update_decimal_from_bits_unsigned(boxes) == SumActive(boxes)

\* a mutant of update_decimal_from_bits: the MSB is read as a sign in front
\* of the magnitude held by the other bits
update_decimal_from_bits_sign_magnitude(boxes) ==
    IF boxes[1].value = 1 THEN 0 - SumActive(Tail(boxes)) ELSE SumActive(boxes)

\* update_decimal_from_bits: the current_val it computes from the boxes
update_decimal_from_bits(boxes) ==
    LET is_signed == boxes[1].value = 1
    IN  IF is_signed THEN -128 + SumActive(Tail(boxes))
        ELSE SumActive(boxes)

\* a mutant of toggle: the bit is set instead of flipped
toggle_sets_one(box, manual) ==
    IF manual THEN [box EXCEPT !.value = 1] ELSE box

\* BitBox.toggle on one box: set_value(1 - value) if in manual mode
toggle(box, manual) ==
    IF manual THEN [box EXCEPT !.value = 1 - box.value] ELSE box

\* on_bit_clicked's loop: the first box whose power equals the argument is
\* toggled, then break
ToggleByPower(boxes, power, manual) ==
    IF \E i \in 1..Len(boxes) : boxes[i].power = power
    THEN LET k == CHOOSE i \in 1..Len(boxes) :
                    /\ boxes[i].power = power
                    /\ \A j \in 1..(i - 1) : boxes[j].power # power
         IN  [boxes EXCEPT ![k] = toggle(boxes[k], manual)]
    ELSE boxes

\* What the slot `lambda p=power: self.on_bit_clicked(p)` receives as p. The
\* clicked signal carries `checked` (False for a plain push button). PyQt
\* calls a slot with the signal's arguments when the slot accepts them, so the
\* lambda's p is False, which equals 0 in the loop's comparison with a power;
\* a binding that delivers no argument leaves p at its default, the power.
\* Which of the two a run has is fixed for the run (slot_gets_checked).
ClickedSlotArg(power) == IF slot_gets_checked THEN 0 ELSE power

(***************************************************************************)
(* Base conversion                                                         *)
(***************************************************************************)
RECURSIVE ConvertLoop(_, _, _)
\* the while loop of convert_to_base; raised = TRUE is the IndexError of
\* digits[num % base] when the digit is past the end of `digits`
ConvertLoop(num, base, result) ==
    IF num > 0
    THEN IF (num % base) + 1 > Len(digits)
         THEN [raised |-> TRUE, text |-> result]
         ELSE ConvertLoop(num \div base, base, <<digits[(num % base) + 1]>> \o result)
    ELSE [raised |-> FALSE, text |-> result]

RECURSIVE ConvertLoopAppending(_, _, _)
ConvertLoopAppending(num, base, result) ==
    IF num > 0
    THEN IF (num % base) + 1 > Len(digits)
         THEN [raised |-> TRUE, text |-> result]
         ELSE ConvertLoopAppending(num \div base, base,
                                   result \o <<digits[(num % base) + 1]>>)
    ELSE [raised |-> FALSE, text |-> result]

\* a mutant of convert_to_base: each digit is put after the result, not before
convert_to_base_appending(num, base) ==
    IF num = 0 THEN [raised |-> FALSE, text |-> <<"0">>]
    ELSE ConvertLoopAppending(num, base, <<>>)

\* convert_to_base(num, base)
convert_to_base(num, base) ==
    IF num = 0 THEN [raised |-> FALSE, text |-> <<"0">>]
    ELSE ConvertLoop(num, base, <<>>)

(***************************************************************************)
(* Explanation panel and active-bit sum label                              *)
(***************************************************************************)
RECURSIVE DivisionLoop(_, _)
\* while temp_val > 0: one row <<temp_val, quotient, remainder>> per pass
DivisionLoop(temp_val, rows) ==
    IF temp_val > 0
    THEN DivisionLoop(temp_val \div 2,
                      Append(rows, <<temp_val, temp_val \div 2, temp_val % 2>>))
    ELSE rows

RECURSIVE PowersLoop(_, _, _)
\* for i in range(num_bits - 1, -1, -1): greedy choice of 2 ** i; the result
\* holds the chosen powers and what is left of `remaining` after the loop
PowersLoop(i, remaining, parts) ==
    IF i < 0 THEN [parts |-> parts, remaining |-> remaining]
    ELSE IF remaining >= 2 ^ i
         THEN PowersLoop(i - 1, remaining - 2 ^ i, Append(parts, i))
         ELSE PowersLoop(i - 1, remaining, parts)

NoExplanation ==
    [kind |-> "cleared", value |-> 0, rows |-> <<>>, parts |-> <<>>,
     remaining |-> 0, binary |-> <<>>]

\* a mutant of show_division_method: no row is written for 0
show_division_method_without_zero_row(value) ==
    IF value < 0
    THEN [NoExplanation EXCEPT !.kind = "division_negative", !.value = value,
                               !.binary = FormatBin8(Mask8(value))]
    ELSE [NoExplanation EXCEPT
            !.kind = "division", !.value = value,
            !.rows = DivisionLoop(value, <<>>),
            !.binary = Bin(value)]

\* show_division_method(value): the rows of the table and the binary string
show_division_method(value) ==
    IF value < 0
    THEN [NoExplanation EXCEPT !.kind = "division_negative", !.value = value,
                               !.binary = FormatBin8(Mask8(value))]
    ELSE [NoExplanation EXCEPT
            !.kind = "division", !.value = value,
            !.rows = (IF value = 0 THEN <<<<0, 0, 0>>>> ELSE <<>>)
                     \o DivisionLoop(value, <<>>),
            !.binary = Bin(value)]

\* show_powers_method(value): the powers listed and the binary string
show_powers_method(value) ==
    IF value < 0
    THEN [NoExplanation EXCEPT !.kind = "powers_negative", !.value = value,
                               !.remaining = Mask8(value)]
    ELSE IF value = 0
    THEN [NoExplanation EXCEPT !.kind = "powers_zero", !.binary = <<"0">>]
    ELSE LET loop == PowersLoop(num_bits - 1, value, <<>>)
         IN  [NoExplanation EXCEPT !.kind = "powers", !.value = value,
                                   !.parts = loop.parts,
                                   !.remaining = loop.remaining,
                                   !.binary = Bin(value)]

\* update_explanation: its argument is ignored, the decimal field is parsed
\* again (empty text reads as 0); a ValueError clears the panel
update_explanation(text, division) ==
    LET parsed == IF text = <<>> THEN [ok |-> TRUE, val |-> 0] ELSE ParseInt(text)
    IN  IF ~parsed.ok THEN NoExplanation
        ELSE IF division THEN show_division_method(parsed.val)
        ELSE show_powers_method(parsed.val)

RECURSIVE ActiveTerms(_)
\* the 2^power terms of the boxes whose value is 1, in box order
ActiveTerms(boxes) ==
    IF boxes = <<>> THEN <<>>
    ELSE (IF Head(boxes).value = 1 THEN <<2 ^ Head(boxes).power>> ELSE <<>>)
         \o ActiveTerms(Tail(boxes))

\* update_total_sum_label(value): the terms listed and the number after "="
update_total_sum_label(boxes, value) ==
    LET is_signed_view == boxes[1].value = 1
        active_parts == IF is_signed_view
                        THEN <<-128>> \o ActiveTerms(Tail(boxes))
                        ELSE ActiveTerms(boxes)
    IN  IF active_parts = <<>> THEN [terms |-> <<>>, shown |-> 0]
        ELSE [terms |-> active_parts, shown |-> value]

(***************************************************************************)
(* Handlers of the converter                                               *)
(***************************************************************************)
\* update_all_outputs(value), run with the boxes, field text and base of the
\* moment. The three fixed cards are written first; an IndexError raised by
\* convert_to_base leaves the slot there (nothing catches it).
update_all_outputs(value, boxes, text, base) ==
    LET unsigned_pattern_val == Mask8(value)
        conv == convert_to_base(unsigned_pattern_val, base)
    IN  /\ binary_card' = FormatBin8(unsigned_pattern_val)
        /\ octal_card' = FormatOct(unsigned_pattern_val)
        /\ hex_card' = FormatHex(unsigned_pattern_val)
        /\ IF conv.raised
           THEN /\ crashed' = TRUE
                /\ UNCHANGED <<custom_card, explanation_text, total_sum_label>>
           ELSE /\ crashed' = FALSE
                /\ custom_card' = conv.text
                /\ explanation_text' = update_explanation(text, division_checked)
                /\ total_sum_label' = update_total_sum_label(boxes, value)

\* a mutant of InRange: the upper limit is not checked
InRangeNoUpper(value) == MinValue <= value

\* if -128 <= value <= 255
InRange(value) == MinValue <= value /\ value <= MaxValue

\* a mutant of DecimalInputCase: a text that does not parse falls back to
\* the empty-text branch (read as 0) instead of being rejected
DecimalInputCaseErrorAsEmpty(text) ==
    IF text = <<>> \/ ~ParseInt(text).ok THEN "empty"
    ELSE IF InRange(ParseInt(text).val) THEN "in_range"
    ELSE "out_of_range"

\* the branch on_decimal_changed takes: `if not text`, the try body with the
\* range test, or the except ValueError
DecimalInputCase(text) ==
    IF text = <<>> THEN "empty"
    ELSE IF ~ParseInt(text).ok THEN "value_error"
    ELSE IF InRange(ParseInt(text).val) THEN "in_range"
    ELSE "out_of_range"

\* on_decimal_changed(text): the slot of decimal_input.textChanged
on_decimal_changed(text) ==
    LET branch == DecimalInputCase(text)
        value == ParseInt(text).val
    IN  CASE branch = "empty" ->
                /\ input_valid' = TRUE
                /\ invert_enabled' = TRUE
                /\ bit_boxes' = update_bits_from_decimal(bit_boxes, 0)
                /\ update_all_outputs(0, bit_boxes', text, base_selector)
          [] branch = "in_range" ->
                /\ input_valid' = TRUE
                /\ bit_boxes' = update_bits_from_decimal(bit_boxes, value)
                /\ update_all_outputs(value, bit_boxes', text, base_selector)
                /\ invert_enabled' = IF crashed' THEN invert_enabled
                                     ELSE value # -128
          [] OTHER ->
                /\ input_valid' = FALSE
                /\ invert_enabled' = FALSE
                /\ UNCHANGED <<bit_boxes, outputVars>>

\* the value on_decimal_changed handed to update_bits_from_decimal, as <<v>>
DerivedFrom(text) ==
    IF text = <<>> THEN <<0>>
    ELSE IF ParseInt(text).ok /\ InRange(ParseInt(text).val)
         THEN <<ParseInt(text).val>>
         ELSE <<>>

\* The user edits the decimal field (keys or paste): textChanged fires with
\* the new text. The field is read-only in manual mode.
TypeDecimalText(text) ==
    /\ ~crashed
    /\ ~manual_mode
    /\ text # decimal_text
    /\ decimal_text' = text
    /\ on_decimal_changed(text)
    /\ last' = "on_decimal_changed"
    /\ UNCHANGED <<manual_mode, base_selector, division_checked, quizVars, slot_gets_checked>>

\* toggle_manual_mode(state): the checkbox flips
toggle_manual_mode ==
    /\ ~crashed
    /\ manual_mode' = ~manual_mode
    /\ last' = "toggle_manual_mode"
    /\ UNCHANGED <<decimal_text, input_valid, invert_enabled, bit_boxes, base_selector,
                   division_checked, outputVars, quizVars, slot_gets_checked>>

\* A click on box i (Python index i - 1). Two slots are connected to its
\* clicked signal and run in connection order: BitBox.toggle of that box, then
\* the lambda calling on_bit_clicked(p), which toggles by power and runs
\* update_decimal_from_bits (field text set with signals blocked, so that
\* on_decimal_changed does not run, then update_all_outputs).
ClickBitBox(i) ==
    /\ ~crashed
    /\ LET after_toggle == [bit_boxes EXCEPT ![i] = toggle(bit_boxes[i], manual_mode)]
           p == ClickedSlotArg(bit_boxes[i].power)
           after_slot == ToggleByPower(after_toggle, p, manual_mode)
           current_val == update_decimal_from_bits(after_slot)
       IN  IF ~manual_mode
           THEN UNCHANGED <<decimal_text, bit_boxes, outputVars>>
           ELSE /\ bit_boxes' = after_slot
                /\ decimal_text' = Str(current_val)
                /\ update_all_outputs(current_val, after_slot, decimal_text', base_selector)
    /\ last' = "on_bit_clicked"
    /\ UNCHANGED <<input_valid, invert_enabled, manual_mode, base_selector,
                   division_checked, quizVars, slot_gets_checked>>

\* the invert button takes a click: the process lives and the button is enabled
InvertAvailable == ~crashed /\ invert_enabled

\* invert_sign: the button delivers clicks only while enabled; setText emits
\* textChanged (and so runs on_decimal_changed) only if the text differs
invert_sign ==
    /\ InvertAvailable
    /\ LET parsed == ParseInt(decimal_text)
           inverted_text == Str(0 - parsed.val)
       IN  IF parsed.ok /\ inverted_text # decimal_text
           THEN /\ decimal_text' = inverted_text
                /\ on_decimal_changed(inverted_text)
           ELSE UNCHANGED <<decimal_text, input_valid, invert_enabled, bit_boxes,
                            outputVars>>
    /\ last' = "invert_sign"
    /\ UNCHANGED <<manual_mode, base_selector, division_checked, quizVars, slot_gets_checked>>

\* base_selector.valueChanged is connected to update_all_outputs: the new base
\* arrives as its `value`
ChangeBase(base) ==
    /\ ~crashed
    /\ base # base_selector
    /\ base_selector' = base
    /\ update_all_outputs(base, bit_boxes, decimal_text, base)
    /\ last' = "base_changed"
    /\ UNCHANGED <<decimal_text, input_valid, invert_enabled, manual_mode, bit_boxes,
                   division_checked, quizVars, slot_gets_checked>>

\* mode_group.buttonClicked is connected to update_explanation
ClickRadio(division) ==
    /\ ~crashed
    /\ division_checked' = division
    /\ explanation_text' = update_explanation(decimal_text, division)
    /\ last' = "radio_clicked"
    /\ UNCHANGED <<decimal_text, input_valid, invert_enabled, manual_mode, bit_boxes,
                   base_selector, binary_card, octal_card, hex_card, custom_card,
                   total_sum_label, crashed, quizVars, slot_gets_checked>>

(***************************************************************************)
(* Handlers of the quiz panel                                              *)
(***************************************************************************)
\* a mutant of QuizPrompt: the digits are not padded
QuizPromptUnpadded(answer) == Bin(answer)

\* bin(self.quiz_answer)[2:].zfill(8)
QuizPrompt(answer) == ZFill(Bin(answer), 8)

\* start_quiz: random.randint(0, 255) is the choice of `answer`
start_quiz(answer) ==
    /\ ~crashed
    /\ quiz_answer' = answer
    /\ quiz_question' = QuizPrompt(answer)
    /\ quiz_input' = <<>>
    /\ quiz_submit_enabled' = TRUE
    /\ last' = "start_quiz"
    /\ UNCHANGED <<quiz_score, quiz_total, quiz_label, message_box, converterVars, slot_gets_checked>>

\* the user edits the answer field; no slot is connected to it
TypeQuizInput(text) ==
    /\ ~crashed
    /\ text # quiz_input
    /\ quiz_input' = text
    /\ last' = "quiz_input_edited"
    /\ UNCHANGED <<quiz_answer, quiz_score, quiz_total, quiz_question,
                   quiz_submit_enabled, quiz_label, message_box, converterVars, slot_gets_checked>>

\* a mutant of CountedTotal: the attempt is counted before the text is parsed
CountedTotalBeforeParse(parsed, total) == total + 1

\* self.quiz_total += 1 comes after int(...), inside the try
CountedTotal(parsed, total) == IF parsed.ok THEN total + 1 ELSE total

\* a mutant of CountedScore: every counted attempt scores
CountedScoreAlways(parsed, answer, score) == IF parsed.ok THEN score + 1 ELSE score

\* if user_answer == self.quiz_answer: self.quiz_score += 1
CountedScore(parsed, answer, score) ==
    IF parsed.ok /\ parsed.val = answer THEN score + 1 ELSE score

\* check_quiz_answer: the slot of quiz_submit.clicked; a disabled button
\* delivers no click. The panel's widgets are hidden by create_quiz_panel and
\* nothing in the file shows them; the slot is modelled as reachable whenever
\* the button is enabled.
check_quiz_answer ==
    /\ ~crashed
    /\ quiz_submit_enabled
    /\ LET parsed == ParseInt(quiz_input)
       IN  /\ parsed.ok => quiz_total < MaxSubmissions
           /\ quiz_total' = CountedTotal(parsed, quiz_total)
           /\ quiz_score' = CountedScore(parsed, quiz_answer, quiz_score)
           /\ IF parsed.ok
              THEN /\ message_box' = IF parsed.val = quiz_answer THEN "Correct!"
                                     ELSE "Incorrect"
                   /\ quiz_label' = <<quiz_score', quiz_total'>>
                   /\ quiz_submit_enabled' = FALSE
                   /\ quiz_input' = <<>>
              ELSE /\ message_box' = "Invalid Input"
                   /\ UNCHANGED <<quiz_label, quiz_submit_enabled, quiz_input>>
    /\ last' = "check_quiz_answer"
    /\ UNCHANGED <<quiz_answer, quiz_question, converterVars, slot_gets_checked>>

(***************************************************************************)
(* Initial state: after BinaryVisualizerTab.__init__                       *)
(***************************************************************************)
\* init_ui ends with decimal_input.setText("0"), which runs
\* on_decimal_changed("0"), and update_all_outputs(0); the base is 10 and
\* the powers radio is checked
Init ==
    /\ decimal_text = <<"0">>
    /\ input_valid = TRUE
    /\ invert_enabled = TRUE
    /\ manual_mode = FALSE
    /\ bit_boxes = InitialBitBoxes
    /\ base_selector = DefaultBase
    /\ binary_card = FormatBin8(0)
    /\ octal_card = FormatOct(0)
    /\ hex_card = FormatHex(0)
    /\ custom_card = convert_to_base(0, DefaultBase).text
    /\ division_checked = FALSE
    /\ explanation_text = show_powers_method(0)
    /\ total_sum_label = update_total_sum_label(InitialBitBoxes, 0)
    /\ crashed = FALSE
    /\ quiz_answer = 0
    /\ quiz_score = 0
    /\ quiz_total = 0
    /\ quiz_question = <<"1", "1", "0", "1">>
    /\ quiz_input = <<>>
    /\ quiz_submit_enabled = TRUE
    /\ quiz_label = <<0, 0>>
    /\ message_box = "none"
    /\ slot_gets_checked \in BOOLEAN
    /\ last = "init_ui"
    /\ typed = <<0>>
    /\ clicks = <<>>
    /\ question_open = FALSE

(***************************************************************************)
(* Inputs                                                                  *)
(***************************************************************************)
BitIndexes == 1..num_bits
Bases == MinBase..MaxBase
ByteValues == 0..(2 ^ num_bits - 1)

\* texts that are no plain decimal numerals
OddTexts == { <<>>, <<"1", "2", "a">>, <<" ", "7", " ">> }
\* numbers typed as plain numerals: inside, at the edges of and outside the range
TypedInts == {-129, -128, -1, 0, 128, 200, 255, 300}
TypedTexts == OddTexts \cup {Str(v) : v \in TypedInts}
\* bases chosen in the selector besides its initial 10
BaseInputs == {16, 36}
\* boxes clicked: the MSB box, the box of power 1, the LSB box
ClickedBoxes == {1, 7, 8}

(***************************************************************************)
(* Specifications                                                          *)
(***************************************************************************)
\* The converter: typing a decimal, switching manual mode, clicking bits,
\* inverting, changing the custom base. The explanation radio buttons and the
\* quiz panel are explored by their own specifications.
Next ==
    \/ \E text \in TypedTexts : TypeDecimalText(text) /\ UNCHANGED observerVars
    \/ toggle_manual_mode /\ UNCHANGED observerVars
    \/ \E i \in ClickedBoxes : ClickBitBox(i) /\ UNCHANGED observerVars
    \/ invert_sign /\ UNCHANGED observerVars
    \/ \E base \in BaseInputs : ChangeBase(base) /\ UNCHANGED observerVars

Spec == Init /\ [][Next]_vars

\* Round trips through the bit boxes: a value of the accepted range is typed
\* as the first event, then manual mode is switched and one box is clicked
\* repeatedly; the observers record the value the pattern was derived from
\* and the clicks made in manual mode since.
NextRoundTrip ==
    \/ \E v \in MinValue..MaxValue :
          /\ last = "init_ui"
          /\ TypeDecimalText(Str(v))
          /\ typed' = DerivedFrom(Str(v))
          /\ clicks' = <<>>
          /\ UNCHANGED question_open
    \/ toggle_manual_mode /\ UNCHANGED observerVars
    \/ \E i \in BitIndexes :
          /\ Len(clicks) < MaxClicks
          /\ clicks # <<>> => clicks[1] = bit_boxes[i].power
          /\ ClickBitBox(i)
          /\ clicks' = IF manual_mode THEN Append(clicks, bit_boxes[i].power)
                       ELSE clicks
          /\ UNCHANGED <<typed, question_open>>

SpecRoundTrip == Init /\ [][NextRoundTrip]_vars

\* The base cards: a base of the selector is chosen as the first event, or
\* none, and then a byte value is typed; 0, the text the field starts with,
\* is typed over that value.
NextCards ==
    \/ \E base \in Bases :
          last = "init_ui" /\ ChangeBase(base) /\ UNCHANGED observerVars
    \/ \E v \in ByteValues :
          /\ last \in {"init_ui", "base_changed"}
          /\ TypeDecimalText(Str(v))
          /\ UNCHANGED observerVars
    \/ /\ last = "on_decimal_changed"
       /\ TypeDecimalText(Str(0))
       /\ UNCHANGED observerVars

SpecCards == Init /\ [][NextCards]_vars

\* The quiz panel.
QuizAnswers == {0, 77, 200, 255}
QuizOddTexts == { <<>>, <<"a", "b", "c">> }
QuizTypedInts == {76}
NextQuiz ==
    \/ \E answer \in QuizAnswers :
          start_quiz(answer) /\ question_open' = TRUE /\ UNCHANGED <<typed, clicks>>
    \/ \E text \in QuizOddTexts \cup {Str(v) : v \in QuizTypedInts \cup {quiz_answer}} :
          TypeQuizInput(text) /\ UNCHANGED observerVars
    \/ /\ check_quiz_answer
       /\ question_open' = IF quiz_total' # quiz_total THEN FALSE ELSE question_open
       /\ UNCHANGED <<typed, clicks>>

SpecQuiz == Init /\ [][NextQuiz]_vars

\* The quiz questions: the first question has any answer random.randint(0, 255)
\* can draw, the questions started after a submission one of QuizAnswers.
NextQuestions ==
    \/ \E answer \in ByteValues :
          /\ \/ last = "init_ui"
             \/ last = "check_quiz_answer" /\ answer \in QuizAnswers
          /\ start_quiz(answer)
          /\ question_open' = TRUE
          /\ UNCHANGED <<typed, clicks>>
    \/ \E text \in {Str(v) : v \in QuizTypedInts \cup {quiz_answer}} :
          last = "start_quiz" /\ TypeQuizInput(text) /\ UNCHANGED observerVars
    \/ /\ check_quiz_answer
       /\ question_open' = IF quiz_total' # quiz_total THEN FALSE ELSE question_open
       /\ UNCHANGED <<typed, clicks>>

SpecQuestions == Init /\ [][NextQuestions]_vars

\* The explanation panel: a number is typed as the first event, inside or
\* outside the accepted range, and the method radio buttons are clicked.
ExplainedInts == (MinValue - 1)..(MaxValue + 45)
NextExplanation ==
    \/ \E v \in ExplainedInts :
          last = "init_ui" /\ TypeDecimalText(Str(v)) /\ UNCHANGED observerVars
    \/ \E division \in BOOLEAN : ClickRadio(division) /\ UNCHANGED observerVars

SpecExplanation == Init /\ [][NextExplanation]_vars

(***************************************************************************)
(* Properties                                                              *)
(***************************************************************************)
\* the values of the boxes in box order, and the same rendered as text
BitValues(boxes) == [i \in 1..Len(boxes) |-> boxes[i].value]
BitString(boxes) == [i \in 1..Len(boxes) |-> DecDigits[boxes[i].value + 1]]

\* the decimal field holds an integer: its value (only read where DecimalOk)
DecimalOk == ParseInt(decimal_text).ok
DecimalValue == ParseInt(decimal_text).val

\* the two's-complement reading of the pattern of v: v itself up to 127,
\* v - 256 from 128 on
SignedReading(v) == IF v <= 127 THEN v ELSE v - 256

\* the bit values update_bits_from_decimal lays out for v
PatternOf(v) == BitValues(update_bits_from_decimal(InitialBitBoxes, v))

\* the unsigned value of the boxes read by position, index 1 the MSB
RECURSIVE PositionalValue(_, _)
PositionalValue(values, acc) ==
    IF values = <<>> THEN acc
    ELSE PositionalValue(Tail(values), 2 * acc + Head(values))

\* the boxes hold a pattern derived from a typed value and the decimal was
\* re-derived from them by a click in manual mode
ReadBackFromTyped ==
    /\ typed # <<>>
    /\ manual_mode
    /\ last = "on_bit_clicked"
    /\ BitValues(bit_boxes) = PatternOf(typed[1])

\* C1 as stated: for every v in [-128, 255], the decimal read back from the
\* pattern derived from v is exactly v.
C1_RoundTripIsIdentity ==
    ReadBackFromTyped => DecimalOk /\ DecimalValue = typed[1]

\* C1 amended: the decimal read back from the pattern derived from v is v for
\* v in [-128, 127] and v - 256 for v in [128, 255].
C1_RoundTripIsSignedReading ==
    ReadBackFromTyped =>
        /\ decimal_text = Str(SignedReading(typed[1]))
        /\ DecimalOk /\ DecimalValue = SignedReading(typed[1])

\* 200 was typed and read back as -56
C1_Witness ==
    /\ ReadBackFromTyped
    /\ typed = <<200>>
    /\ decimal_text = <<"-", "5", "6">>

\* the digit alphabet 0-9A-Z of bases up to 36
Alphabet36 == <<"0", "1", "2", "3", "4", "5", "6", "7", "8", "9",
                "A", "B", "C", "D", "E", "F", "G", "H", "I", "J", "K", "L", "M",
                "N", "O", "P", "Q", "R", "S", "T", "U", "V", "W", "X", "Y", "Z">>

IsDigitOfBase(c, base) == \E d \in 1..base : Alphabet36[d] = c

RECURSIVE ParseInBase(_, _, _)
\* the value of a digit string over Alphabet36 in a base (int(text, base))
ParseInBase(text, base, acc) ==
    IF text = <<>> THEN acc
    ELSE ParseInBase(Tail(text), base,
                     base * acc + (CHOOSE d \in 1..36 : Alphabet36[d] = Head(text)) - 1)

\* C2: for every v in [0, 255] and every base in [2, 36], convert_to_base
\* does not fail and returns digits that parse back in that base to v (seen
\* in the Base-N card after v is typed with that base selected).
C2_BaseRoundTrip ==
    (last = "on_decimal_changed" /\ DecimalOk /\ DecimalValue \in ByteValues) =>
        /\ ~crashed
        /\ custom_card # <<>>
        /\ \A k \in 1..Len(custom_card) : IsDigitOfBase(custom_card[k], base_selector)
        /\ ParseInBase(custom_card, base_selector, 0) = DecimalValue

\* C3: whenever the decimal value is -128 the invert button takes no click.
C3_NoInvertAtMinus128 ==
    (DecimalOk /\ DecimalValue = -128) => ~InvertAvailable

\* C4: when the decimal text changes to an integer outside [-128, 255], the
\* input is signalled invalid and no bit box changes.
C4_RangeErrorKeepsBits ==
    [][ ( /\ decimal_text' # decimal_text
          /\ ParseInt(decimal_text').ok
          /\ ( ParseInt(decimal_text').val < MinValue
               \/ ParseInt(decimal_text').val > MaxValue ) )
        => ( ~input_valid' /\ bit_boxes' = bit_boxes ) ]_vars

\* 300 was typed over 200: flagged invalid, the boxes still hold 200
C4_Witness ==
    /\ last = "on_decimal_changed"
    /\ decimal_text = <<"3", "0", "0">>
    /\ ~input_valid
    /\ BitValues(bit_boxes) = PatternOf(200)

\* a text int() rejects, read off the characters: after stripping blanks and
\* one sign there must be digits, with single underscores only between them
IsIntegerText(text) == IsDigitBody(
    LET t == Strip(text)
    IN  IF t # <<>> /\ Head(t) \in {"-", "+"} THEN Tail(t) ELSE t)

\* C5 as stated: when the decimal text changes to a text that is no integer,
\* the empty text included, invalid input is signalled and no bit changes.
C5_ParseErrorKeepsBits ==
    [][ ( decimal_text' # decimal_text /\ ~IsIntegerText(decimal_text') )
        => ( ~input_valid' /\ bit_boxes' = bit_boxes ) ]_vars

\* C5 amended: a change to a non-empty text that is no integer signals
\* invalid input and changes no bit; a change to the empty text is accepted
\* as 0: no invalid signal, and all 8 bits become 0.
C5_ParseErrorKeepsBitsUnlessEmpty ==
    [][ ( ( decimal_text' # decimal_text /\ decimal_text' # <<>>
            /\ ~IsIntegerText(decimal_text') )
          => ( ~input_valid' /\ bit_boxes' = bit_boxes ) )
        /\ ( ( decimal_text' # decimal_text /\ decimal_text' = <<>> )
          => ( input_valid' /\ BitValues(bit_boxes') = PatternOf(0) ) ) ]_vars

\* "12a" was typed over 200: flagged invalid, the boxes still hold 200
C5_Witness ==
    /\ last = "on_decimal_changed"
    /\ decimal_text = <<"1", "2", "a">>
    /\ ~input_valid
    /\ BitValues(bit_boxes) = PatternOf(200)

\* a value was typed and, in manual mode, one box was then clicked twice
ToggledTwice ==
    /\ typed # <<>>
    /\ manual_mode
    /\ last = "on_bit_clicked"
    /\ Len(clicks) = 2
    /\ clicks[1] = clicks[2]

\* C6 as stated: for every v in [-128, 255] and every power p, after v is
\* typed and the box of p is toggled twice in manual mode, the decimal shown
\* is v again.
C6_DoubleToggleRestoresValue ==
    ToggledTwice => DecimalOk /\ DecimalValue = typed[1]

\* C6 amended: after the two clicks the boxes hold the pattern of v again and
\* the decimal shown is its two's-complement reading: v for v in [-128, 127],
\* v - 256 for v in [128, 255].
C6_DoubleToggleRestoresPattern ==
    ToggledTwice =>
        /\ BitValues(bit_boxes) = PatternOf(typed[1])
        /\ DecimalOk /\ DecimalValue = SignedReading(typed[1])

\* 5 was typed and the box of power 3 clicked twice: 5 is shown again
C6_Witness ==
    /\ ToggledTwice
    /\ typed = <<5>>
    /\ clicks = <<3, 3>>
    /\ decimal_text = <<"5">>

\* C7: the bit array always has 8 entries in {0, 1} with powers 7 down to 0,
\* and whenever the decimal field holds an integer of [-128, 255] the unsigned
\* MSB-first value of the boxes is that integer & 0xFF.
C7_BitsMatchDecimal ==
    /\ Len(bit_boxes) = 8
    /\ \A i \in 1..Len(bit_boxes) :
          bit_boxes[i].value \in {0, 1} /\ bit_boxes[i].power = 8 - i
    /\ (DecimalOk /\ MinValue <= DecimalValue /\ DecimalValue <= MaxValue) =>
          PositionalValue(BitValues(bit_boxes), 0) = DecimalValue % 256

\* a manual click left all eight bits set and -1 in the decimal field
C7_Witness ==
    /\ manual_mode
    /\ last = "on_bit_clicked"
    /\ decimal_text = <<"-", "1">>
    /\ BitValues(bit_boxes) = <<1, 1, 1, 1, 1, 1, 1, 1>>

\* the last event refreshed the outputs for the value in the decimal field
OutputsRefreshed ==
    /\ DecimalOk /\ MinValue <= DecimalValue /\ DecimalValue <= MaxValue
    /\ \/ last \in {"on_decimal_changed", "base_changed"}
       \/ last = "on_bit_clicked" /\ manual_mode

\* C8: after an event that refreshes the outputs, the binary card shows the
\* current value & 0xFF as 8 binary digits, equal to the bit array, and the
\* octal and hex cards show that number in base 8 and 16 (so a change of the
\* base alone leaves the three cards as they were).
C8_CardsShowCurrentValue ==
    OutputsRefreshed =>
        /\ binary_card = FormatBin8(DecimalValue % 256)
        /\ binary_card = BitString(bit_boxes)
        /\ octal_card = FormatOct(DecimalValue % 256)
        /\ hex_card = FormatHex(DecimalValue % 256)

\* C9: a submission that parses as an integer adds exactly 1 to the total and
\* 1 to the correct count if it equals the answer, else 0; the counts never
\* decrease and 0 <= correct <= total always.
C9_QuizScoring ==
    [][ /\ ( last' = "check_quiz_answer" /\ IsIntegerText(quiz_input) )
           => /\ quiz_total' = quiz_total + 1
              /\ quiz_score' = quiz_score
                               + (IF ParseInt(quiz_input).val = quiz_answer THEN 1 ELSE 0)
        /\ quiz_total' >= quiz_total
        /\ quiz_score' >= quiz_score
        /\ 0 <= quiz_score' /\ quiz_score' <= quiz_total' ]_vars

\* two counted submissions, one of them correct
C9_Witness ==
    /\ last = "check_quiz_answer"
    /\ quiz_total = 2
    /\ quiz_score = 1

\* C10: a submission that is no integer leaves the total, the correct count
\* and the outstanding question unchanged, and submission stays enabled.
C10_InvalidAnswerNotCounted ==
    [][ ( last' = "check_quiz_answer" /\ ~IsIntegerText(quiz_input) )
        => /\ quiz_total' = quiz_total
           /\ quiz_score' = quiz_score
           /\ quiz_answer' = quiz_answer
           /\ quiz_question' = quiz_question
           /\ quiz_submit_enabled' ]_vars

\* "abc" was submitted after one counted answer: total still 1, submit enabled
C10_Witness ==
    /\ last = "check_quiz_answer"
    /\ message_box = "Invalid Input"
    /\ quiz_input = <<"a", "b", "c">>
    /\ quiz_submit_enabled
    /\ quiz_total = 1

\* the decimal field was re-derived from the boxes by the last event
DerivedFromBits == manual_mode /\ last = "on_bit_clicked"

\* C11: for every bit pattern, the decimal derived from the bits is decided
\* by the MSB alone: -128 plus the value of the lower seven bits when bit 7 is
\* 1, the value of the set bits when it is 0; it lies in [-128, 127].
C11_MsbDecidesDecimal ==
    DerivedFromBits =>
        LET bits == BitValues(bit_boxes)
            low == PositionalValue(Tail(bits), 0)
        IN  /\ decimal_text = Str(IF bits[1] = 1 THEN low - 128 ELSE low)
            /\ DecimalOk
            /\ -128 <= DecimalValue /\ DecimalValue <= 127

\* the pattern 10000101 was read as -123
C11_Witness ==
    /\ DerivedFromBits
    /\ BitValues(bit_boxes) = <<1, 0, 0, 0, 0, 1, 0, 1>>
    /\ decimal_text = <<"-", "1", "2", "3">>

\* a byte value was typed and on_decimal_changed refreshed bits and cards
ByteTyped ==
    /\ last = "on_decimal_changed"
    /\ DecimalOk
    /\ DecimalValue \in ByteValues

\* C12: for every v in [0, 255], convert_to_base(v, 2) (the Base-N card with
\* base 2 selected) padded with zeros to 8 digits equals the bit boxes laid
\* out for v, rendered MSB-first, and equals the binary card.
C12_Base2MatchesBits ==
    (ByteTyped /\ base_selector = 2) =>
        /\ ~crashed
        /\ ZFill(custom_card, 8) = BitString(bit_boxes)
        /\ ZFill(custom_card, 8) = binary_card

\* 5 was typed with base 2 selected: 101 in the Base-N card, 00000101 in the boxes
C12_Witness ==
    /\ ByteTyped /\ base_selector = 2
    /\ decimal_text = <<"5">>
    /\ custom_card = <<"1", "0", "1">>
    /\ BitValues(bit_boxes) = <<0, 0, 0, 0, 0, 1, 0, 1>>

\* the remainders of the rows, read from the last row to the first, as text
RemaindersBottomUp(rows) ==
    [k \in 1..Len(rows) |-> DecDigits[rows[Len(rows) + 1 - k][3] + 1]]

\* C13: for every v in [0, 255] the division method records the steps
\* (dividend, dividend div 2, dividend mod 2) from v on, each step dividing
\* the quotient of the one before, until the quotient is 0 (one step 0, 0, 0
\* for v = 0), and the remainders read from the last step to the first are
\* the binary string reported: the digits of v without leading zeros.
C13_DivisionSteps ==
    (explanation_text.kind = "division" /\ explanation_text.value \in ByteValues) =>
        LET v == explanation_text.value
            rows == explanation_text.rows
            n == Len(rows)
        IN  /\ n >= 1
            /\ rows[1][1] = v
            /\ \A k \in 1..n : /\ rows[k][2] = rows[k][1] \div 2
                                /\ rows[k][3] = rows[k][1] % 2
            /\ \A k \in 1..(n - 1) : rows[k + 1][1] = rows[k][2] /\ rows[k][2] > 0
            /\ rows[n][2] = 0
            /\ v = 0 => rows = << <<0, 0, 0>> >>
            /\ RemaindersBottomUp(rows) = explanation_text.binary
            /\ explanation_text.binary[1] = "0" => (v = 0 /\ n = 1)
            /\ ParseInBase(explanation_text.binary, 2, 0) = v

\* 6 is divided in three steps, the remainders 0, 1, 1 read upwards give 110
C13_Witness ==
    /\ last = "radio_clicked"
    /\ explanation_text.kind = "division"
    /\ explanation_text.rows = << <<6, 3, 0>>, <<3, 1, 1>>, <<1, 0, 1>> >>
    /\ explanation_text.binary = <<"1", "1", "0">>

RECURSIVE SumOfPowers(_)
\* the sum of 2^p over a list of powers
SumOfPowers(parts) ==
    IF parts = <<>> THEN 0 ELSE 2 ^ Head(parts) + SumOfPowers(Tail(parts))

\* the positions of the 1 digits of v written in binary
SetBits(v) == {p \in 0..(Len(Bin(v)) - 1) : (v \div (2 ^ p)) % 2 = 1}

\* C14: for every non-negative v that reaches show_powers_method, the greedy
\* scan selects distinct powers out of 7..0 whose sum is v, nothing remains,
\* and the selected powers are exactly the set bits of v.
C14_PowersSumToValue ==
    explanation_text.kind = "powers" =>
        LET v == explanation_text.value
            parts == explanation_text.parts
        IN  /\ \A k \in 1..Len(parts) : parts[k] \in 0..(num_bits - 1)
            /\ \A j, k \in 1..Len(parts) : j < k => parts[j] > parts[k]
            /\ SumOfPowers(parts) = v
            /\ explanation_text.remaining = 0
            /\ {parts[k] : k \in 1..Len(parts)} = SetBits(v)

\* C15: for every base of [2, 36], convert_to_base(0, b) is "0", and for
\* every n in [1, 255] it returns a non-empty text that does not start with
\* 0 and whose digits are 0-9 and uppercase letters (seen in the Base-N card
\* after n is typed with that base selected).
C15_NoLeadingZeros ==
    ByteTyped =>
        /\ ~crashed
        /\ DecimalValue = 0 => custom_card = <<"0">>
        /\ DecimalValue >= 1 =>
              /\ custom_card # <<>>
              /\ custom_card[1] # "0"
              /\ \A k \in 1..Len(custom_card) :
                    \E d \in 1..Len(Alphabet36) : Alphabet36[d] = custom_card[k]

\* C16: every question created by start_quiz has an answer in [0, 255] and a
\* prompt of exactly 8 binary digits whose unsigned value is that answer;
\* start_quiz leaves the score counts unchanged and enables submission.
C16_QuestionMatchesAnswer ==
    [][ last' = "start_quiz"
        => /\ quiz_answer' \in ByteValues
           /\ Len(quiz_question') = 8
           /\ \A k \in 1..Len(quiz_question') : quiz_question'[k] \in {"0", "1"}
           /\ ParseInBase(quiz_question', 2, 0) = quiz_answer'
           /\ quiz_score' = quiz_score
           /\ quiz_total' = quiz_total
           /\ quiz_label' = quiz_label
           /\ quiz_submit_enabled' ]_vars

\* a second question, 77 shown as 01001101, was started after one counted answer
C16_Witness ==
    /\ last = "start_quiz"
    /\ quiz_answer = 77
    /\ quiz_question = <<"0", "1", "0", "0", "1", "1", "0", "1">>
    /\ quiz_total = 1
    /\ quiz_submit_enabled

\* C17: in manual mode one click on the box of power p flips exactly that
\* bit, counting every slot connected to the click, leaves the other seven
\* bits as they were, and the decimal is re-derived from the new pattern;
\* with manual mode off a click changes neither a bit nor the decimal text.
C17_ClickFlipsOneBit ==
    [][ last' = "on_bit_clicked"
        => IF manual_mode
           THEN /\ clicks' # <<>>
                /\ \A i \in 1..Len(bit_boxes) :
                      bit_boxes'[i].value =
                          IF bit_boxes[i].power = clicks'[Len(clicks')]
                          THEN 1 - bit_boxes[i].value
                          ELSE bit_boxes[i].value
                /\ decimal_text' =
                      Str(SignedReading(PositionalValue(BitValues(bit_boxes'), 0)))
           ELSE bit_boxes' = bit_boxes /\ decimal_text' = decimal_text ]_vars

\* C18: whenever invert is enabled and the decimal field holds an integer v,
\* applying invert leaves -v in the field with -v in [-128, 255], and the
\* bit pattern becomes (-v) & 0xFF.
C18_InvertStaysInRange ==
    [][ (last' = "invert_sign" /\ DecimalOk)
        => /\ ParseInt(decimal_text').ok
           /\ ParseInt(decimal_text').val = 0 - DecimalValue
           /\ MinValue <= 0 - DecimalValue /\ 0 - DecimalValue <= MaxValue
           /\ PositionalValue(BitValues(bit_boxes'), 0) = (0 - DecimalValue) % 256 ]_vars

\* C19: a submission is counted only while a question created by start_quiz
\* is outstanding: start_quiz has run, and no submission was counted since.
\* So there is a start_quiz between any two counted submissions and before
\* the first one.
C19_QuestionConsumed ==
    [][ quiz_total' # quiz_total => question_open ]_vars

RECURSIVE SumOfTerms(_)
\* the sum of a list of numbers
SumOfTerms(terms) ==
    IF terms = <<>> THEN 0 ELSE Head(terms) + SumOfTerms(Tail(terms))

\* C20: the terms the active-bit sum label lists (-2^7 for a set MSB, 2^p for
\* every other set bit) add up to the total it shows after the "=" sign.
C20_SumLabelAddsUp ==
    SumOfTerms(total_sum_label.terms) = total_sum_label.shown

=============================================================================
